---- MODULE Spec2Model ----
(***************************************************************************)
(* pyblocks: the Board engine of src/pyblocks.py, driven by the main       *)
(* thread's game loop (GameInstance.game_loop -> Board.try_update_state)   *)
(* and by the keyboard thread of src/libs/kb_input.py                      *)
(* (InputListenerThread.run -> Board.update_active_quad).                  *)
(*                                                                         *)
(* Coordinates are <<x, y>> pairs, 0-based as in the source; the cell of   *)
(* <<x, y>> is board_list[y + 1][x + 1] (TLA+ sequences are 1-based).      *)
(***************************************************************************)
EXTENDS Integers, Sequences, FiniteSets, TLC

VARIABLES
    board_list,   \* Board.board_list: rows (top first) of 0/1 cells
    active_quad,  \* Board.active_quad: None or [type, coords]
    game_over,    \* Board.game_over
    score,        \* Board.score
    board_lock,   \* Board.board_lock: "free" or the thread holding it
    pc,           \* per thread: the line of pyblocks.py it is about to run
    act,          \* per thread: the `action` argument of update_active_quad
    raised,       \* per thread: the exception that ended it, or "none"
    stopped,      \* InputListenerThread.stopped
    nSpawns,      \* quads drawn so far by Quad.get_new_quad
    nInputs,      \* keys delivered so far by the keyboard thread
    tick_spawn,   \* what spawn_quad did in the current tick: "none",
                  \* "placed" (line 260) or "failed" (line 262)
    tick_score,   \* the score when the current tick began
    nTicks,       \* calls of try_update_state that have returned
    nPlaced,      \* quads placed on the grid so far (line 260)
    last_move,    \* per thread: how its last run of lines 291-307 ended:
                  \* "moved" (302), "locked" (306-307), "rejected", "raised"
    arg,          \* the arguments of a function called on its own
    ret           \* <<its result>>, or <<>> before it has returned

vars == <<board_list, active_quad, game_over, score, board_lock, pc, act,
          raised, stopped, nSpawns, nInputs, tick_spawn, tick_score,
          nTicks, nPlaced, last_move, arg, ret>>

\* What a tick remembers of itself.
tick_vars == <<tick_spawn, tick_score>>

\* What has happened so far.
hist_vars == <<nTicks, nPlaced, last_move>>

\* The call of a function on its own.
unit_vars == <<arg, ret>>

\* The game.
game_vars == <<board_list, active_quad, game_over, score, board_lock, pc, act,
               raised, stopped, nSpawns, nInputs, tick_vars, hist_vars>>

(***************************************************************************)
(* Bounds of the exploration.                                              *)
(***************************************************************************)
MaxSpawns == 1
MaxInputs == 1

(***************************************************************************)
(* Program constants.                                                      *)
(***************************************************************************)
Width == 10
Height == 20

\* Python's None, for self.active_quad.
None == [type |-> "None", coords |-> <<>>]
Threads == {"tick", "input"}

QuadTypes == {"LINE", "SQUARE", "L", "J", "S", "Z", "T"}

QUAD_SPAWNS ==
    [LINE   |-> << <<3, 0>>, <<4, 0>>, <<5, 0>>, <<6, 0>> >>,
     SQUARE |-> << <<4, 0>>, <<5, 0>>, <<4, 1>>, <<5, 1>> >>,
     L      |-> << <<3, 1>>, <<4, 1>>, <<5, 1>>, <<5, 0>> >>,
     J      |-> << <<3, 1>>, <<4, 1>>, <<5, 1>>, <<3, 0>> >>,
     S      |-> << <<3, 1>>, <<4, 1>>, <<4, 0>>, <<5, 0>> >>,
     Z      |-> << <<3, 0>>, <<4, 0>>, <<4, 1>>, <<5, 1>> >>,
     T      |-> << <<3, 1>>, <<4, 0>>, <<4, 1>>, <<5, 1>> >>]

\* The keys of Quad.actions, in the dict's order.
QuadActions ==
    <<"TRANSLATE_DOWN", "TRANSLATE_LEFT", "TRANSLATE_RIGHT", "ROTATE_RIGHT">>

QuadActionKeys == {QuadActions[i] : i \in 1..Len(QuadActions)}

\* The values of KEYCODE_ACTIONS: what the keyboard thread can pass on.
KEYCODE_ACTIONS == QuadActionKeys \cup {"QUIT"}

\* The exceptions of the program.
SetSetCoord == "Attempted to set a set coord"
UnsetUnsetCoord == "Attempted to unset an unset coord"
DoubleSpawn == "Attempted to spawn a quad when one was already active"
IllegalCoords == "Illegal new coords"
UnrecognisedAction == "Unrecognised action"
AttributeError == "AttributeError: 'NoneType' object has no attribute 'actions'"
IndexError == "IndexError"

(***************************************************************************)
(* Quad: the candidate coordinates of each move.                           *)
(***************************************************************************)
Quad(type) == [type |-> type, coords |-> QUAD_SPAWNS[type]]

if_translate_down(coords) ==
    [i \in 1..Len(coords) |-> <<coords[i][1], coords[i][2] + 1>>]

if_translate_left(coords) ==
    [i \in 1..Len(coords) |-> <<coords[i][1] - 1, coords[i][2]>>]

if_translate_right(coords) ==
    [i \in 1..Len(coords) |-> <<coords[i][1] + 1, coords[i][2]>>]

RECURSIVE SumAxis(_, _, _)
SumAxis(coords, axis, i) ==
    IF i > Len(coords) THEN 0
    ELSE coords[i][axis] + SumAxis(coords, axis, i + 1)

\* RoundDiv with a tie rounded up, as in floor(total / n + 0.5).
RoundDivHalfUp(total, n) ==
    LET q == total \div n
        r == total % n
    IN  IF 2 * r < n THEN q ELSE q + 1

\* Python's round(total / n): to the nearest integer, a tie to the even one.
RoundDiv(total, n) ==
    LET q == total \div n
        r == total % n
    IN  IF 2 * r < n THEN q
        ELSE IF 2 * r > n THEN q + 1
        ELSE IF q % 2 = 0 THEN q ELSE q + 1

if_rotate_right(coords) ==
    LET centroid_x == RoundDiv(SumAxis(coords, 1, 1), Len(coords))
        centroid_y == RoundDiv(SumAxis(coords, 2, 1), Len(coords))
    IN  [i \in 1..Len(coords) |->
            LET translated_x == coords[i][1] - centroid_x
                translated_y == coords[i][2] - centroid_y
                rotated_x == 0 - translated_y
                rotated_y == translated_x
            IN  <<rotated_x + centroid_x, rotated_y + centroid_y>>]

\* self.actions[action]()
QuadAction(coords, action) ==
    CASE action = "TRANSLATE_DOWN"  -> if_translate_down(coords)
      [] action = "TRANSLATE_LEFT"  -> if_translate_left(coords)
      [] action = "TRANSLATE_RIGHT" -> if_translate_right(coords)
      [] action = "ROTATE_RIGHT"    -> if_rotate_right(coords)

\* Quad.update_coords: the new quad, or the error it raises.
update_coords(quad, updated_coords) ==
    IF \E i \in 1..Len(QuadActions) :
            updated_coords = QuadAction(quad.coords, QuadActions[i])
    THEN [quad |-> [quad EXCEPT !.coords = updated_coords], err |-> "none"]
    ELSE [quad |-> quad, err |-> IllegalCoords]

\* `coord in coords` on Python lists.
InList(coord, coords) == \E i \in 1..Len(coords) : coords[i] = coord

\* [coord for coord in these if coord not in those]
NotIn(these, those) == SelectSeq(these, LAMBDA coord : ~InList(coord, those))

(***************************************************************************)
(* Board: the grid.                                                        *)
(***************************************************************************)
EmptyRow == [x \in 1..Width |-> 0]

EmptyBoard == [y \in 1..Height |-> EmptyRow]

\* The 1-based position Python's list[i] reads in a list of length n: a
\* negative i counts from the end; 0 stands for IndexError.
PyIndex(i, n) ==
    IF i >= 0 /\ i < n THEN i + 1
    ELSE IF i < 0 /\ i >= 0 - n THEN n + i + 1
    ELSE 0

\* Can self.board_list[coord[1]][coord[0]] be read without IndexError?
Readable(board, coord) ==
    /\ PyIndex(coord[2], Len(board)) # 0
    /\ PyIndex(coord[1], Len(board[PyIndex(coord[2], Len(board))])) # 0

\* self.board_list[coord[1]][coord[0]]
Cell(board, coord) ==
    LET row == board[PyIndex(coord[2], Len(board))]
    IN  row[PyIndex(coord[1], Len(row))]

\* self.board_list[coord[1]][coord[0]] = value
SetCell(board, coord, value) ==
    LET y == PyIndex(coord[2], Len(board))
        x == PyIndex(coord[1], Len(board[y]))
    IN  [board EXCEPT ![y] = [@ EXCEPT ![x] = value]]

\* coords_available_loop without the test of line 195: a negative coordinate
\* is read as Python reads it, from the end of the list.
RECURSIVE coords_available_loop_wraps(_, _, _)
coords_available_loop_wraps(board, coords, i) ==
    IF i > Len(coords) THEN "True"
    ELSE IF ~Readable(board, coords[i]) THEN IndexError
    ELSE IF Cell(board, coords[i]) # 0 THEN "False"
    ELSE coords_available_loop_wraps(board, coords, i + 1)

\* The loop of Board._coords_available from coords[i] on: "True", "False", or
\* "IndexError" when a read leaves the lists.
RECURSIVE coords_available_loop(_, _, _)
coords_available_loop(board, coords, i) ==
    IF i > Len(coords) THEN "True"
    ELSE IF coords[i][1] < 0 \/ coords[i][2] < 0 THEN "False"
    ELSE IF ~Readable(board, coords[i]) THEN IndexError
    ELSE IF Cell(board, coords[i]) # 0 THEN "False"
    ELSE coords_available_loop(board, coords, i + 1)

\* coords_available with its last line `return True`: a read that leaves the
\* lists counts as available.
coords_available_falls_to_true(board, coords) ==
    coords_available_loop(board, coords, 1) # "False"

\* Board._coords_available: bounds_manager swallows the IndexError and the
\* function falls through to its last line, return False.
coords_available(board, coords) ==
    coords_available_loop(board, coords, 1) = "True"

\* The first loop of Board._update_board_list, from add_coords[i] on.
RECURSIVE add_loop(_, _, _)
add_loop(board, add_coords, i) ==
    IF i > Len(add_coords) THEN [board |-> board, err |-> "none"]
    ELSE IF ~Readable(board, add_coords[i])
         THEN [board |-> board, err |-> IndexError]
    ELSE IF Cell(board, add_coords[i]) # 0
         THEN [board |-> board, err |-> SetSetCoord]
    ELSE add_loop(SetCell(board, add_coords[i], 1), add_coords, i + 1)

\* remove_loop without line 228: the cells the quad leaves stay set.
remove_loop_keeps_cells(board, remove_coords, i) ==
    [board |-> board, err |-> "none"]

\* The second loop of Board._update_board_list, from remove_coords[i] on.
RECURSIVE remove_loop(_, _, _)
remove_loop(board, remove_coords, i) ==
    IF i > Len(remove_coords) THEN [board |-> board, err |-> "none"]
    ELSE IF ~Readable(board, remove_coords[i])
         THEN [board |-> board, err |-> IndexError]
    ELSE IF Cell(board, remove_coords[i]) = 0
         THEN [board |-> board, err |-> UnsetUnsetCoord]
    ELSE remove_loop(SetCell(board, remove_coords[i], 0), remove_coords, i + 1)

\* Board._update_board_list: the grid it leaves, and the error it raised.
update_board_list(board, add_coords, remove_coords) ==
    LET added == add_loop(board, add_coords, 1)
    IN  IF added.err # "none" THEN added
        ELSE remove_loop(added.board, remove_coords, 1)

\* all(self.board_list[row_idx])
RowFilled(row) == \A x \in 1..Len(row) : row[x] # 0

\* DropRow with the free row appended below the grid, as in
\* `self.board_list.append([0, ..., 0])`.
DropRowAppends(board, row_idx) ==
    SubSeq(board, 1, row_idx) \o SubSeq(board, row_idx + 2, Len(board))
                              \o <<EmptyRow>>

\* del self.board_list[row_idx]; self.board_list.insert(0, [0, ..., 0])
\* (row_idx is 0-based).
DropRow(board, row_idx) ==
    <<EmptyRow>> \o SubSeq(board, 1, row_idx)
                 \o SubSeq(board, row_idx + 2, Len(board))

\* line_filled_loop with a `break` after line 246: the loop ends with the
\* first row it clears.
RECURSIVE line_filled_loop_breaks(_, _, _, _)
line_filled_loop_breaks(board, points, row_idx, n) ==
    IF row_idx >= n THEN [board |-> board, score |-> points]
    ELSE IF RowFilled(board[row_idx + 1])
         THEN [board |-> DropRow(board, row_idx), score |-> points + 1]
    ELSE line_filled_loop_breaks(board, points, row_idx + 1, n)

\* The loop of Board._update_line_filled from row_idx on; n is the
\* len(self.board_list) that range() read when the loop started.
RECURSIVE line_filled_loop(_, _, _, _)
line_filled_loop(board, points, row_idx, n) ==
    IF row_idx >= n THEN [board |-> board, score |-> points]
    ELSE IF RowFilled(board[row_idx + 1])
         THEN line_filled_loop(DropRow(board, row_idx), points + 1,
                               row_idx + 1, n)
    ELSE line_filled_loop(board, points, row_idx + 1, n)

\* update_line_filled with `self.score += 1` after the loop: one point for a
\* call that cleared any rows.
update_line_filled_one_point(board, points) ==
    LET cleared == line_filled_loop(board, points, 0, Len(board))
    IN  [board |-> cleared.board,
         score |-> IF cleared.score > points THEN points + 1 ELSE points]

\* Board._update_line_filled
update_line_filled(board, points) ==
    line_filled_loop(board, points, 0, Len(board))

\* spawn_place with game_over assigned on both paths, as in
\* `self.game_over = not self._coords_available(...)`.
spawn_place_assigns_flag(board, quad, over) ==
    IF coords_available(board, quad.coords)
    THEN LET placed == update_board_list(board, quad.coords, <<>>)
         IN  [board |-> placed.board, game_over |-> FALSE, err |-> placed.err]
    ELSE [board |-> board, game_over |-> TRUE, err |-> "none"]

\* Lines 259-262 of Board.spawn_quad, run with the new quad already in
\* self.active_quad: the grid and the game_over flag it leaves, and the error
\* _update_board_list raised.
spawn_place(board, quad, over) ==
    IF coords_available(board, quad.coords)
    THEN LET placed == update_board_list(board, quad.coords, <<>>)
         IN  [board |-> placed.board, game_over |-> over, err |-> placed.err]
    ELSE [board |-> board, game_over |-> TRUE, err |-> "none"]

\* move_quad without the test of line 304: every move that is not available
\* sets the piece in the board.
move_quad_always_sets(board, quad, points, action) ==
    LET updated_coords == QuadAction(quad.coords, action)
        new_coords == NotIn(updated_coords, quad.coords)
        remove_coords == NotIn(quad.coords, updated_coords)
    IN  IF coords_available(board, new_coords)
        THEN LET applied == update_board_list(board, new_coords, remove_coords)
                 moved == update_coords(quad, updated_coords)
             IN  IF applied.err # "none"
                 THEN [board |-> applied.board, quad |-> quad,
                       score |-> points, err |-> applied.err,
                       path |-> "raised"]
                 ELSE [board |-> applied.board, quad |-> moved.quad,
                       score |-> points, err |-> moved.err,
                       path |-> IF moved.err # "none" THEN "raised"
                                ELSE "moved"]
        ELSE LET cleared == update_line_filled(board, points)
             IN  [board |-> cleared.board, quad |-> None,
                  score |-> cleared.score, err |-> "none", path |-> "locked"]

\* Lines 291-307 of Board.update_active_quad, run under board_lock with a quad
\* in self.active_quad: what it leaves in board_list, active_quad and score,
\* and the error it raised.
move_quad(board, quad, points, action) ==
    LET updated_coords == QuadAction(quad.coords, action)
        new_coords == NotIn(updated_coords, quad.coords)
        remove_coords == NotIn(quad.coords, updated_coords)
    IN  IF coords_available(board, new_coords)
        THEN LET applied == update_board_list(board, new_coords, remove_coords)
                 moved == update_coords(quad, updated_coords)
             IN  IF applied.err # "none"
                 THEN [board |-> applied.board, quad |-> quad,
                       score |-> points, err |-> applied.err,
                       path |-> "raised"]
                 ELSE [board |-> applied.board, quad |-> moved.quad,
                       score |-> points, err |-> moved.err,
                       path |-> IF moved.err # "none" THEN "raised"
                                ELSE "moved"]
        ELSE IF action = "TRANSLATE_DOWN"
        THEN LET cleared == update_line_filled(board, points)
             IN  [board |-> cleared.board, quad |-> None,
                  score |-> cleared.score, err |-> "none", path |-> "locked"]
        ELSE [board |-> board, quad |-> quad, score |-> points,
              err |-> "none", path |-> "rejected"]

(***************************************************************************)
(* Control: where a thread goes when a call returns or raises.             *)
(***************************************************************************)
\* update_active_quad returns: the tick goes on to its sleep (line 321), the
\* keyboard thread to the top of its loop (kb_input.py line 33).
AfterUpdate(t) == IF t = "tick" THEN "tus_321" ELSE "run"

Goto(t, label) == pc' = [pc EXCEPT ![t] = label]

\* An exception nobody catches ends the thread: game_loop and run() have no
\* handler for it (run() catches KeyError only).
Raise(t, err) ==
    /\ pc' = [pc EXCEPT ![t] = "raised"]
    /\ raised' = [raised EXCEPT ![t] = err]

(***************************************************************************)
(* The boards the exploration starts from: positions of a game in          *)
(* progress, each reached from the empty board of Board.__init__ by the    *)
(* play its comment gives, with no piece active and no row cleared so far. *)
(* They stand close to the top of the grid, where a piece locks down       *)
(* within a few ticks and a spawn can fail.                                *)
(***************************************************************************)
BoardOf(cells) ==
    [y \in 1..Height |->
        [x \in 1..Width |-> IF <<x - 1, y - 1>> \in cells THEN 1 ELSE 0]]

\* Columns 0..8 filled from row 4 down by vertical LINEs (column 9 is left
\* open, so no row is full): each LINE moves down once, is rotated into
\* column 4 and pushed sideways; columns are filled from the walls inwards,
\* column 4 last.
Stack == {<<x, y>> : x \in 0..8, y \in 4..(Height - 1)}

\* On the stack: two SQUAREs pushed right (they rest in rows 2 and 3), then a
\* LINE pushed right twice (it rests on them in row 1).
RightShelf ==
    Stack \cup {<<x, y>> : x \in {6, 7, 8, 9}, y \in {2, 3}}
          \cup {<<x, 1>> : x \in 5..8}

\* On the stack: SQUAREs pushed to both sides, leaving the two columns under
\* the SQUARE's spawn cells open in rows 2 and 3.
SquareGap == Stack \cup {<<x, y>> : x \in {0, 1, 2, 3, 6, 7, 8, 9}, y \in {2, 3}}

\* On the stack: an L pushed left and a J pushed right, leaving the four
\* columns under the LINE's spawn cells open in row 3.
LineGap ==
    Stack \cup {<<0, 3>>, <<1, 3>>, <<2, 3>>, <<2, 2>>}
          \cup {<<7, 3>>, <<8, 3>>, <<9, 3>>, <<7, 2>>}

\* On the stack: two SQUAREs dropped straight down; the second one cannot
\* leave its spawn cells.
SquareTower == Stack \cup {<<x, y>> : x \in {4, 5}, y \in 0..3}

\* The occupied cells of the grid from row y down, counted.
RECURSIVE CellsFrom(_, _)
CellsFrom(board, y) ==
    IF y > Len(board) THEN 0
    ELSE Cardinality({x \in 1..Len(board[y]) : board[y][x] # 0})
             + CellsFrom(board, y + 1)

\* The occupied cells of the grid, counted.
Cells(board) == CellsFrom(board, 1)

InitBoards ==
    {BoardOf(Stack), BoardOf(RightShelf), BoardOf(SquareGap), BoardOf(LineGap),
     BoardOf(SquareTower)}

Init ==
    /\ board_list \in InitBoards
    /\ active_quad = None
    /\ game_over = FALSE
    /\ score = 0
    /\ board_lock = "free"
    /\ pc = [t \in Threads |-> IF t = "tick" THEN "tus_315" ELSE "run"]
    /\ act = [t \in Threads |-> IF t = "tick" THEN "TRANSLATE_DOWN" ELSE "none"]
    /\ raised = [t \in Threads |-> "none"]
    /\ stopped = FALSE
    /\ nSpawns = 0
    /\ nInputs = 0
    /\ tick_spawn = "none"
    /\ tick_score = 0
    /\ nTicks = 0
    /\ nPlaced = Cells(board_list) \div 4
    /\ last_move = [t \in Threads |-> "none"]
    /\ arg = <<>>
    /\ ret = <<>>

(***************************************************************************)
(* Board.try_update_state and GameInstance.game_loop (the main thread).    *)
(***************************************************************************)
\* Line 315: if not self.game_over (a tick begins)
TickCheckOver ==
    /\ pc["tick"] = "tus_315"
    /\ Goto("tick", IF game_over THEN "tus_323" ELSE "tus_316")
    /\ tick_spawn' = "none"
    /\ tick_score' = score
    /\ UNCHANGED <<hist_vars, unit_vars>>
    /\ UNCHANGED <<board_list, active_quad, game_over, score, board_lock, act,
                   raised, stopped, nSpawns, nInputs>>

\* Line 316: if not self.active_quad; line 318 passes 'TRANSLATE_DOWN'.
TickCheckActive ==
    /\ pc["tick"] = "tus_316"
    /\ Goto("tick", IF active_quad = None THEN "sq_253" ELSE "uaq_277")
    /\ UNCHANGED <<board_list, active_quad, game_over, score, board_lock, act,
                   raised, stopped, nSpawns, nInputs>>
    /\ UNCHANGED <<tick_vars, hist_vars, unit_vars>>

\* Line 321: time.sleep(1)
TickSleep ==
    /\ pc["tick"] = "tus_321"
    /\ Goto("tick", "tus_323")
    /\ UNCHANGED <<board_list, active_quad, game_over, score, board_lock, act,
                   raised, stopped, nSpawns, nInputs>>
    /\ UNCHANGED <<tick_vars, hist_vars, unit_vars>>

\* Line 323: return not self.game_over, and game_loop's test of it.
TickReturn ==
    /\ pc["tick"] = "tus_323"
    /\ Goto("tick", IF game_over THEN "returned" ELSE "tus_315")
    /\ UNCHANGED <<board_list, active_quad, game_over, score, board_lock, act,
                   raised, stopped, nSpawns, nInputs>>
    /\ nTicks' = nTicks + 1
    /\ UNCHANGED <<tick_vars, nPlaced, last_move, unit_vars>>

\* The main thread leaves `with GameInstance()`, by return or by exception:
\* AsyncInputHandler.__exit__ stops the keyboard thread.
MainExit ==
    /\ pc["tick"] \in {"returned", "raised"}
    /\ Goto("tick", "exited")
    /\ stopped' = TRUE
    /\ UNCHANGED <<board_list, active_quad, game_over, score, board_lock, act,
                   raised, nSpawns, nInputs>>
    /\ UNCHANGED <<tick_vars, hist_vars, unit_vars>>

(***************************************************************************)
(* Board.spawn_quad (called by the main thread only).                      *)
(***************************************************************************)
\* Line 253: with self.board_lock
SpawnAcquire ==
    /\ pc["tick"] = "sq_253"
    /\ nSpawns < MaxSpawns
    /\ board_lock = "free"
    /\ board_lock' = "tick"
    /\ Goto("tick", "sq_254")
    /\ UNCHANGED <<board_list, active_quad, game_over, score, act, raised,
                   stopped, nSpawns, nInputs>>
    /\ UNCHANGED <<tick_vars, hist_vars, unit_vars>>

\* Lines 254-258: the double-spawn check, then random.choice of a type.
SpawnNew ==
    /\ pc["tick"] = "sq_254"
    /\ IF active_quad # None
       THEN /\ Raise("tick", DoubleSpawn)
            /\ board_lock' = "free"
            /\ UNCHANGED <<active_quad, nSpawns>>
       ELSE /\ \E type \in QuadTypes : active_quad' = Quad(type)
            /\ nSpawns' = nSpawns + 1
            /\ Goto("tick", "sq_259")
            /\ UNCHANGED <<board_lock, raised>>
    /\ UNCHANGED <<board_list, game_over, score, act, stopped, nInputs>>
    /\ UNCHANGED <<tick_vars, hist_vars, unit_vars>>

\* Lines 259-262, and the release of the lock.
SpawnPlace ==
    /\ pc["tick"] = "sq_259"
    /\ LET done == spawn_place(board_list, active_quad, game_over)
       IN  /\ board_list' = done.board
           /\ game_over' = done.game_over
           /\ IF done.err # "none"
              THEN Raise("tick", done.err)
              ELSE Goto("tick", "uaq_277") /\ UNCHANGED raised
    /\ tick_spawn' = IF coords_available(board_list, active_quad.coords)
                     THEN "placed" ELSE "failed"
    /\ board_lock' = "free"
    /\ nPlaced' = IF coords_available(board_list, active_quad.coords)
                  THEN nPlaced + 1 ELSE nPlaced
    /\ UNCHANGED <<active_quad, score, act, stopped, nSpawns, nInputs,
                   tick_score, nTicks, last_move, unit_vars>>

(***************************************************************************)
(* InputListenerThread.run (the keyboard thread).                          *)
(***************************************************************************)
\* Lines 33-39: a key of KEYCODE_ACTIONS arrives and the callback is called.
InputKey ==
    /\ pc["input"] = "run"
    /\ ~stopped
    /\ nInputs < MaxInputs
    /\ \E action \in KEYCODE_ACTIONS : act' = [act EXCEPT !["input"] = action]
    /\ nInputs' = nInputs + 1
    /\ Goto("input", "uaq_277")
    /\ UNCHANGED <<board_list, active_quad, game_over, score, board_lock,
                   raised, stopped, nSpawns>>
    /\ UNCHANGED <<tick_vars, hist_vars, unit_vars>>

\* Line 33: while not self.stopped
InputStop ==
    /\ pc["input"] = "run"
    /\ stopped
    /\ Goto("input", "exited")
    /\ UNCHANGED <<board_list, active_quad, game_over, score, board_lock, act,
                   raised, stopped, nSpawns, nInputs>>
    /\ UNCHANGED <<tick_vars, hist_vars, unit_vars>>

(***************************************************************************)
(* Board.update_active_quad (called by both threads).                      *)
(***************************************************************************)
\* UpdateQuit that also discards the active piece.
UpdateQuitDropsPiece(t) ==
    /\ pc[t] = "uaq_277"
    /\ act[t] = "QUIT"
    /\ game_over' = TRUE
    /\ active_quad' = None
    /\ Goto(t, AfterUpdate(t))
    /\ UNCHANGED <<board_list, score, board_lock, act, raised, stopped,
                   nSpawns, nInputs>>
    /\ UNCHANGED <<tick_vars, hist_vars, unit_vars>>

\* Lines 277-279: QUIT
UpdateQuit(t) ==
    /\ pc[t] = "uaq_277"
    /\ act[t] = "QUIT"
    /\ game_over' = TRUE
    /\ Goto(t, AfterUpdate(t))
    /\ UNCHANGED <<board_list, active_quad, score, board_lock, act, raised,
                   stopped, nSpawns, nInputs>>
    /\ UNCHANGED <<tick_vars, hist_vars, unit_vars>>

\* Lines 277, 281-282: not QUIT; if not self.active_quad: return
UpdateCheckActive(t) ==
    /\ pc[t] = "uaq_277"
    /\ act[t] # "QUIT"
    /\ Goto(t, IF active_quad = None THEN AfterUpdate(t) ELSE "uaq_284")
    /\ UNCHANGED <<board_list, active_quad, game_over, score, board_lock, act,
                   raised, stopped, nSpawns, nInputs>>
    /\ UNCHANGED <<tick_vars, hist_vars, unit_vars>>

\* Lines 284-288: self.active_quad.actions is read again, without the lock.
UpdateCheckAction(t) ==
    /\ pc[t] = "uaq_284"
    /\ IF active_quad = None THEN Raise(t, AttributeError)
       ELSE IF act[t] \notin QuadActionKeys THEN Raise(t, UnrecognisedAction)
       ELSE Goto(t, "uaq_290") /\ UNCHANGED raised
    /\ UNCHANGED <<board_list, active_quad, game_over, score, board_lock, act,
                   stopped, nSpawns, nInputs>>
    /\ UNCHANGED <<tick_vars, hist_vars, unit_vars>>

\* Line 290: with self.board_lock
UpdateAcquire(t) ==
    /\ pc[t] = "uaq_290"
    /\ board_lock = "free"
    /\ board_lock' = t
    /\ Goto(t, "uaq_291")
    /\ UNCHANGED <<board_list, active_quad, game_over, score, act, raised,
                   stopped, nSpawns, nInputs>>
    /\ UNCHANGED <<tick_vars, hist_vars, unit_vars>>

\* UpdateMove with line 321 inside the `with self.board_lock:` block: the
\* lock is still held when the call is left.
UpdateMoveKeepsLock(t) ==
    /\ pc[t] = "uaq_291"
    /\ IF active_quad = None
       THEN /\ Raise(t, AttributeError)
            /\ last_move' = [last_move EXCEPT ![t] = "raised"]
            /\ UNCHANGED <<board_list, active_quad, score>>
       ELSE LET done == move_quad(board_list, active_quad, score, act[t])
            IN  /\ board_list' = done.board
                /\ active_quad' = done.quad
                /\ score' = done.score
                /\ last_move' = [last_move EXCEPT ![t] = done.path]
                /\ IF done.err # "none"
                   THEN Raise(t, done.err)
                   ELSE Goto(t, AfterUpdate(t)) /\ UNCHANGED raised
    /\ UNCHANGED board_lock
    /\ UNCHANGED <<game_over, act, stopped, nSpawns, nInputs>>
    /\ UNCHANGED <<tick_vars, nTicks, nPlaced, unit_vars>>

\* Lines 291-307, and the release of the lock. Line 291 reads
\* self.active_quad.actions once more.
UpdateMove(t) ==
    /\ pc[t] = "uaq_291"
    /\ IF active_quad = None
       THEN /\ Raise(t, AttributeError)
            /\ last_move' = [last_move EXCEPT ![t] = "raised"]
            /\ UNCHANGED <<board_list, active_quad, score>>
       ELSE LET done == move_quad(board_list, active_quad, score, act[t])
            IN  /\ board_list' = done.board
                /\ active_quad' = done.quad
                /\ score' = done.score
                /\ last_move' = [last_move EXCEPT ![t] = done.path]
                /\ IF done.err # "none"
                   THEN Raise(t, done.err)
                   ELSE Goto(t, AfterUpdate(t)) /\ UNCHANGED raised
    /\ board_lock' = "free"
    /\ UNCHANGED <<game_over, act, stopped, nSpawns, nInputs>>
    /\ UNCHANGED <<tick_vars, nTicks, nPlaced, unit_vars>>

Next ==
    \/ TickCheckOver
    \/ TickCheckActive
    \/ TickSleep
    \/ TickReturn
    \/ MainExit
    \/ SpawnAcquire
    \/ SpawnNew
    \/ SpawnPlace
    \/ InputKey
    \/ InputStop
    \/ \E t \in Threads : UpdateQuit(t)
    \/ \E t \in Threads : UpdateCheckActive(t)
    \/ \E t \in Threads : UpdateCheckAction(t)
    \/ \E t \in Threads : UpdateAcquire(t)
    \/ \E t \in Threads : UpdateMove(t)

Spec == Init /\ [][Next]_vars

(***************************************************************************)
(* The game at rest, for the calls of one function on its own: the state   *)
(* Board.__init__ leaves, with no thread started.                          *)
(***************************************************************************)
AtRest ==
    /\ active_quad = None
    /\ game_over = FALSE
    /\ board_lock = "free"
    /\ pc = [t \in Threads |-> IF t = "tick" THEN "tus_315" ELSE "run"]
    /\ act = [t \in Threads |-> IF t = "tick" THEN "TRANSLATE_DOWN" ELSE "none"]
    /\ raised = [t \in Threads |-> "none"]
    /\ stopped = FALSE
    /\ nSpawns = 0
    /\ nInputs = 0
    /\ tick_spawn = "none"
    /\ tick_score = 0
    /\ nTicks = 0
    /\ nPlaced = 0
    /\ last_move = [t \in Threads |-> "none"]

(***************************************************************************)
(* The tick thread alone, from the grid of Board.__init__ with a LINE that *)
(* spawn_quad has just placed: no key is pressed.                          *)
(***************************************************************************)
DropInit ==
    /\ board_list = BoardOf({<<QUAD_SPAWNS["LINE"][i][1], QUAD_SPAWNS["LINE"][i][2]>> :
                                i \in 1..Len(QUAD_SPAWNS["LINE"])})
    /\ active_quad = Quad("LINE")
    /\ game_over = FALSE
    /\ score = 0
    /\ board_lock = "free"
    /\ pc = [t \in Threads |-> IF t = "tick" THEN "tus_315" ELSE "run"]
    /\ act = [t \in Threads |-> IF t = "tick" THEN "TRANSLATE_DOWN" ELSE "none"]
    /\ raised = [t \in Threads |-> "none"]
    /\ stopped = FALSE
    /\ nSpawns = 0
    /\ nInputs = 0
    /\ tick_spawn = "none"
    /\ tick_score = 0
    /\ nTicks = 0
    /\ nPlaced = 1
    /\ last_move = [t \in Threads |-> "none"]
    /\ arg = <<>>
    /\ ret = <<>>

DropNext ==
    \/ TickCheckOver
    \/ TickCheckActive
    \/ TickSleep
    \/ TickReturn
    \/ SpawnAcquire
    \/ SpawnNew
    \/ SpawnPlace
    \/ UpdateCheckActive("tick")
    \/ UpdateCheckAction("tick")
    \/ UpdateAcquire("tick")
    \/ UpdateMove("tick")

DropSpec == DropInit /\ [][DropNext]_vars

(***************************************************************************)
(* Board._coords_available on its own: on the empty grid and on grids of   *)
(* the game, with lists of up to MaxCoords coords taken from the corners   *)
(* of the grid and from just outside them.                                 *)
(***************************************************************************)
MaxCoords == 2

EdgeXs == {0 - 1, 0, Width - 1, Width}

EdgeYs == {0 - 1, 0, Height - 1, Height}

CoordLists ==
    UNION {[1..n -> EdgeXs \X EdgeYs] : n \in 0..MaxCoords}

AvailInit ==
    /\ board_list \in {EmptyBoard, BoardOf(Stack), BoardOf(RightShelf)}
    /\ score = 0
    /\ arg \in CoordLists
    /\ ret = <<>>
    /\ AtRest

\* One call of self._coords_available(coords).
AvailCall ==
    /\ ret = <<>>
    /\ ret' = <<coords_available(board_list, arg)>>
    /\ UNCHANGED <<game_vars, arg>>

AvailNext == AvailCall

AvailSpec == AvailInit /\ [][AvailNext]_vars

(***************************************************************************)
(* Quad.if_rotate_right on its own, applied time after time to a SQUARE    *)
(* that lies anywhere in the grid.                                         *)
(***************************************************************************)
\* The coords of a SQUARE, in the order of QUAD_SPAWNS, with its first cell
\* at <<x, y>>.
SquareAt(x, y) ==
    [i \in 1..Len(QUAD_SPAWNS["SQUARE"]) |->
        <<QUAD_SPAWNS["SQUARE"][i][1] - QUAD_SPAWNS["SQUARE"][1][1] + x,
          QUAD_SPAWNS["SQUARE"][i][2] - QUAD_SPAWNS["SQUARE"][1][2] + y>>]

RotInit ==
    /\ board_list = EmptyBoard
    /\ score = 0
    /\ arg \in {SquareAt(x, y) : x \in 0..(Width - 2), y \in 0..(Height - 2)}
    /\ ret = <<>>
    /\ AtRest

\* One more call of if_rotate_right, on the coords the last call returned;
\* ret keeps what the calls returned.
RotCall ==
    /\ Len(ret) < 4
    /\ ret' = Append(ret, if_rotate_right(IF ret = <<>> THEN arg
                                          ELSE ret[Len(ret)]))
    /\ UNCHANGED <<game_vars, arg>>

RotNext == RotCall

RotSpec == RotInit /\ [][RotNext]_vars

(***************************************************************************)
(* Board._update_line_filled on its own, on grids of Height rows whose     *)
(* rows repeat a pattern of PatternLen rows, each row full, free, or       *)
(* occupied in its left or in its right half.                              *)
(***************************************************************************)
PatternLen == 4

MaxPoints == 1

RowKinds ==
    {[x \in 1..Width |-> 1], EmptyRow,
     [x \in 1..Width |-> IF 2 * x <= Width THEN 1 ELSE 0],
     [x \in 1..Width |-> IF 2 * x <= Width THEN 0 ELSE 1]}

PatternBoards ==
    {[y \in 1..Height |-> pattern[((y - 1) % PatternLen) + 1]] :
        pattern \in [1..PatternLen -> RowKinds]}

LineInit ==
    /\ board_list \in PatternBoards
    /\ score \in 0..MaxPoints
    /\ arg = <<board_list, score>>
    /\ ret = <<>>
    /\ AtRest

\* One call of self._update_line_filled(), from its first line to its last.
LineCall ==
    /\ ret = <<>>
    /\ LET cleared == update_line_filled(board_list, score)
       IN  /\ board_list' = cleared.board
           /\ score' = cleared.score
    /\ ret' = <<"None">>
    /\ UNCHANGED <<active_quad, game_over, board_lock, pc, act, raised,
                   stopped, nSpawns, nInputs, tick_vars, hist_vars, arg>>

LineNext == LineCall

LineSpec == LineInit /\ [][LineNext]_vars

(***************************************************************************)
(* Vocabulary of the properties.                                           *)
(***************************************************************************)
\* The thread t takes this step.
Steps(t) == pc'[t] # pc[t]

\* The cell of coord lies in the grid and is occupied.
Occupied(board, coord) ==
    /\ coord[1] >= 0 /\ coord[1] < Width
    /\ coord[2] >= 0 /\ coord[2] < Len(board)
    /\ board[coord[2] + 1][coord[1] + 1] = 1

\* Every cell of the quad lies in the grid and is occupied.
OnBoard(board, quad) ==
    \A i \in 1..Len(quad.coords) : Occupied(board, quad.coords[i])

\* The errors of section 7 that the program can name.
InvariantErrors ==
    {SetSetCoord, UnsetUnsetCoord, DoubleSpawn, IllegalCoords,
     UnrecognisedAction}

\* The cells a TRANSLATE_DOWN of the quad would enter.
DownCells(quad) == NotIn(if_translate_down(quad.coords), quad.coords)

\* The cells the action would have the quad enter.
EnteredCells(quad, action) == NotIn(QuadAction(quad.coords, action), quad.coords)

\* The cell of coord lies in the grid and is free.
Enterable(board, coord) ==
    /\ coord[1] >= 0 /\ coord[1] < Width
    /\ coord[2] >= 0 /\ coord[2] < Len(board)
    /\ board[coord[2] + 1][coord[1] + 1] = 0

\* The actions that move the piece sideways or turn it.
SideActions == {"TRANSLATE_LEFT", "TRANSLATE_RIGHT", "ROTATE_RIGHT"}

\* The grid without its full rows, and as many free rows on top instead.
Compacted(board) ==
    LET kept == SelectSeq(board, LAMBDA row : ~RowFilled(row))
    IN  [i \in 1..(Len(board) - Len(kept)) |-> EmptyRow] \o kept

FullRows(board) == Cardinality({y \in 1..Len(board) : RowFilled(board[y])})

(***************************************************************************)
(* C1. Whenever board_lock is free, active_quad is absent or all of its    *)
(* coords lie inside the grid and are occupied in board_list.              *)
(***************************************************************************)
C1_ActiveQuadOnBoard ==
    board_lock = "free" => (active_quad = None \/ OnBoard(board_list, active_quad))

(***************************************************************************)
(* C2. Once game_over is true, no step of try_update_state or of           *)
(* update_active_quad changes board_list, active_quad or score.            *)
(***************************************************************************)
C2_NoMutationAfterGameOver ==
    [][game_over => UNCHANGED <<board_list, active_quad, score>>]_vars

(***************************************************************************)
(* C3. A step of update_active_quad with a movement action, taken when no  *)
(* piece is active, raises nothing and changes nothing of the game.        *)
(***************************************************************************)
C3_MoveWithoutPieceIsNoOp ==
    [][\A t \in Threads :
          (/\ Steps(t)
           /\ pc[t] \in {"uaq_277", "uaq_284", "uaq_291"}
           /\ act[t] \in QuadActionKeys
           /\ active_quad = None)
          => (/\ raised' = raised
              /\ UNCHANGED <<board_list, active_quad, score, game_over>>)]_vars

(***************************************************************************)
(* C4. No thread ever raises one of the programmer-invariant errors.       *)
(***************************************************************************)
C4_NoInvariantError ==
    \A t \in Threads : raised[t] \notin InvariantErrors

(***************************************************************************)
(* C5. Every step that changes board_list, active_quad, score or game_over *)
(* is taken by the thread that holds board_lock.                           *)
(***************************************************************************)
C5_MutationUnderLock ==
    [][<<board_list, active_quad, score, game_over>>'
            # <<board_list, active_quad, score, game_over>>
          => \E t \in Threads : board_lock = t /\ Steps(t)]_vars

(***************************************************************************)
(* C6. When _update_board_list raises one of its two errors, board_list is *)
(* what it was before the call.                                            *)
(***************************************************************************)
C6_ErrorLeavesBoard ==
    [][\A t \in Threads :
          (raised[t] = "none" /\ raised'[t] \in {SetSetCoord, UnsetUnsetCoord})
          => board_list' = board_list]_vars

(***************************************************************************)
(* C7. A tick whose spawn found a spawn cell occupied ends with game_over  *)
(* true, the score it began with, and no error.                            *)
(***************************************************************************)
C7_FailedSpawnEndsGame ==
    (tick_spawn = "failed" /\ pc["tick"] \in {"tus_321", "raised"})
        => (game_over /\ score = tick_score /\ raised["tick"] = "none")

(***************************************************************************)
(* C8. The QUIT step of update_active_quad sets game_over and leaves       *)
(* board_list, active_quad and score as they were.                         *)
(***************************************************************************)
C8_QuitFrame ==
    [][\A t \in Threads :
          (Steps(t) /\ pc[t] = "uaq_277" /\ act[t] = "QUIT")
          => (game_over' /\ UNCHANGED <<board_list, active_quad, score>>)]_vars

\* QUIT has returned, with a piece active.
C8_Witness ==
    /\ pc["input"] = "run" /\ act["input"] = "QUIT"
    /\ game_over
    /\ active_quad # None /\ OnBoard(board_list, active_quad)

(***************************************************************************)
(* C9. game_over is a latch: no step takes it from true to false.          *)
(***************************************************************************)
C9_GameOverLatch == [][game_over => game_over']_vars

\* The game went on after game_over: the flag was set by QUIT between the
\* tick's test of it and its spawn, and the piece was placed all the same.
C9_Witness ==
    game_over /\ act["input"] = "QUIT" /\ tick_spawn = "placed"

(***************************************************************************)
(* C10. A TRANSLATE_DOWN that cannot enter its cells locks the piece down: *)
(* active_quad becomes absent, the piece's cells are occupied, the full    *)
(* rows are compacted away and score grows by their number.                *)
(***************************************************************************)
C10_LockDown ==
    [][\A t \in Threads :
          (/\ Steps(t)
           /\ pc[t] = "uaq_291"
           /\ act[t] = "TRANSLATE_DOWN"
           /\ active_quad # None
           /\ ~coords_available(board_list, DownCells(active_quad)))
          => (/\ active_quad' = None
              /\ OnBoard(board_list, active_quad)
              /\ board_list' = Compacted(board_list)
              /\ score' = score + FullRows(board_list))]_vars

(***************************************************************************)
(* C11. Board._update_line_filled leaves the grid without its full rows,   *)
(* the other rows in their order below one free row per removed row; the   *)
(* number of rows is unchanged and score has grown by the number of rows   *)
(* that were full before the call.                                         *)
(***************************************************************************)
C11_LineFilled ==
    ret # <<>> =>
        /\ board_list = Compacted(arg[1])
        /\ Len(board_list) = Len(arg[1])
        /\ score = arg[2] + FullRows(arg[1])

\* The call has returned from a grid with two full rows next to each other
\* and a row that is kept.
C11_Witness ==
    /\ ret # <<>>
    /\ \E y \in 1..(Len(arg[1]) - 1) :
            RowFilled(arg[1][y]) /\ RowFilled(arg[1][y + 1])
    /\ \E y \in 1..Len(arg[1]) :
            ~RowFilled(arg[1][y]) /\ arg[1][y] # EmptyRow

(***************************************************************************)
(* C12. With a piece active, a TRANSLATE_LEFT, TRANSLATE_RIGHT or          *)
(* ROTATE_RIGHT that would enter a cell outside the grid or an occupied    *)
(* cell is rejected silently: board_list, active_quad, score and game_over *)
(* stay as they are, no error is raised and the call returns.              *)
(***************************************************************************)
C12_RejectedMove ==
    [][\A t \in Threads :
          (/\ Steps(t)
           /\ pc[t] = "uaq_291"
           /\ active_quad # None
           /\ act[t] \in SideActions
           /\ \E i \in 1..Len(EnteredCells(active_quad, act[t])) :
                  ~Enterable(board_list, EnteredCells(active_quad, act[t])[i]))
          => (/\ UNCHANGED <<board_list, active_quad, score, game_over, raised>>
              /\ pc'[t] = AfterUpdate(t))]_vars

\* The keyboard thread has had a move of a piece on the grid rejected.
C12_Witness ==
    /\ last_move["input"] = "rejected"
    /\ act["input"] \in SideActions
    /\ pc["input"] = "run"
    /\ active_quad # None
    /\ OnBoard(board_list, active_quad)

\* The cells of the LINE, in the bottom row of the grid, are occupied.
LineInBottomRow ==
    \A i \in 1..Len(QUAD_SPAWNS["LINE"]) :
        Occupied(board_list, <<QUAD_SPAWNS["LINE"][i][1], Len(board_list) - 1>>)

(***************************************************************************)
(* C13. From the empty grid with a LINE active at its spawn coords and no  *)
(* key pressed, 19 calls of try_update_state raise no error and leave      *)
(* game_over false, and when the 19th has returned the LINE is locked in   *)
(* the bottom row (active_quad absent), so that the following call spawns  *)
(* a new piece.                                                            *)
(***************************************************************************)
C13_LineDrop ==
    /\ nTicks <= 19 => (raised["tick"] = "none" /\ ~game_over)
    /\ (nTicks = 19 /\ pc["tick"] = "tus_315") =>
           (active_quad = None /\ LineInBottomRow)
    /\ (nTicks = 19 + 1) => nPlaced > 1

(***************************************************************************)
(* C13, amended. The grid of Board.__init__ has Height = 20 rows: the same *)
(* holds of Height calls of try_update_state. The LINE moves down one row  *)
(* in each of the first Height - 1 calls and is locked by the last one.    *)
(***************************************************************************)
C13_LineDropHeight ==
    /\ nTicks <= Height => (raised["tick"] = "none" /\ ~game_over)
    /\ (nTicks < Height /\ pc["tick"] = "tus_315") =>
           (/\ active_quad # None
            /\ active_quad.coords =
                   [i \in 1..Len(QUAD_SPAWNS["LINE"]) |->
                       <<QUAD_SPAWNS["LINE"][i][1], nTicks>>])
    /\ (nTicks = Height /\ pc["tick"] = "tus_315") =>
           (active_quad = None /\ LineInBottomRow)
    /\ (nTicks = Height + 1) => nPlaced > 1

\* The last of the Height calls has returned, with the LINE locked.
C13_Witness ==
    /\ nTicks = Height
    /\ pc["tick"] = "tus_315"
    /\ last_move["tick"] = "locked"
    /\ active_quad = None
    /\ LineInBottomRow

(***************************************************************************)
(* C14. Board._coords_available returns True exactly when every coord lies *)
(* in the grid (x >= 0, y >= 0, x < width, y < height) and its cell is     *)
(* free; otherwise it returns False, and it raises nothing.                *)
(***************************************************************************)
C14_CoordsAvailable ==
    ret # <<>> =>
        /\ ret[1] \in BOOLEAN
        /\ ret[1] = (\A i \in 1..Len(arg) : Enterable(board_list, arg[i]))

\* The call has returned for a list with a free cell of the grid followed by
\* a coord past the right or the bottom edge.
C14_Witness ==
    /\ ret # <<>>
    /\ Len(arg) > 1
    /\ Enterable(board_list, arg[1])
    /\ arg[2][1] >= 0 /\ arg[2][2] >= 0
    /\ (arg[2][1] >= Width \/ arg[2][2] >= Len(board_list))

(***************************************************************************)
(* C15. While try_update_state is at its sleep (line 321), the tick thread *)
(* does not hold board_lock.                                               *)
(***************************************************************************)
C15_SleepWithoutLock ==
    pc["tick"] = "tus_321" => board_lock # "tick"

\* The tick thread sleeps after a move while the keyboard thread holds the
\* lock.
C15_Witness ==
    /\ pc["tick"] = "tus_321"
    /\ last_move["tick"] = "moved"
    /\ board_lock = "input"

(***************************************************************************)
(* C16. Once game_over is true the game loop goes on to return: no step    *)
(* taken with game_over true ends the tick thread by an exception, which   *)
(* would leave game_loop without its return.                               *)
(***************************************************************************)
C16_LoopReturns ==
    [][game_over => raised'["tick"] = raised["tick"]]_vars

(***************************************************************************)
(* C17. For a SQUARE anywhere in the grid, if_rotate_right applied four    *)
(* times, each time to the coords the time before returned, returns the    *)
(* coords it started from.                                                 *)
(***************************************************************************)
C17_SquareFourRotations ==
    Len(ret) = 4 => ret[4] = arg

\* Four calls have returned, for a SQUARE whose centroid is rounded up in x
\* and down in y, and the first call moved the piece to other cells.
C17_Witness ==
    /\ Len(ret) = 4
    /\ arg[1][1] % 2 = 1
    /\ arg[1][2] % 2 = 0
    /\ \E i \in 1..Len(arg) : ~InList(ret[1][i], arg)

(***************************************************************************)
(* C18. score never decreases, and the only step that changes it is the    *)
(* lock-down of update_active_quad (TRANSLATE_DOWN not available, lines    *)
(* 304-307), whose compaction adds exactly 1 for each row it removes.      *)
(***************************************************************************)
C18_ScoreByCompaction ==
    [][/\ score' >= score
       /\ score' # score =>
             \E t \in Threads :
                /\ Steps(t)
                /\ pc[t] = "uaq_291"
                /\ act[t] = "TRANSLATE_DOWN"
                /\ active_quad # None
                /\ active_quad' = None
                /\ board_list' = Compacted(board_list)
                /\ score' = score + FullRows(board_list)]_vars

\* A lock-down by the tick has removed two rows at once, after a spawn and a
\* move by the keyboard thread that left the score alone.
C18_Witness ==
    /\ score = 2
    /\ nSpawns > 0
    /\ active_quad = None
    /\ last_move["tick"] = "locked"
    /\ last_move["input"] = "moved"

(***************************************************************************)
(* C19. Whenever board_lock is free and game_over is false, the number of  *)
(* occupied cells of board_list is 4 times the number of pieces placed so  *)
(* far minus the row width times score.                                    *)
(***************************************************************************)
C19_CellConservation ==
    (board_lock = "free" /\ ~game_over) =>
        Cells(board_list) = 4 * nPlaced - Width * score

\* A piece was spawned and moved by both threads, and its lock-down cleared
\* one row.
C19_Witness ==
    /\ board_lock = "free"
    /\ ~game_over
    /\ score = 1
    /\ nSpawns > 0
    /\ last_move["input"] = "moved"
    /\ last_move["tick"] = "locked"

(***************************************************************************)
(* C20. Whenever board_lock is free, game_over is false and no piece is    *)
(* active, no row of board_list is fully occupied, and board_list has the  *)
(* rows it started with: Height rows of Width columns.                     *)
(***************************************************************************)
C20_NoFullRowAtRest ==
    (board_lock = "free" /\ ~game_over /\ active_quad = None) =>
        /\ FullRows(board_list) = 0
        /\ Len(board_list) = Height
        /\ \A y \in 1..Len(board_list) : Len(board_list[y]) = Width

\* Between a lock-down that cleared two rows and the next spawn.
C20_Witness ==
    /\ board_lock = "free"
    /\ ~game_over
    /\ active_quad = None
    /\ score = 2
    /\ pc["tick"] = "tus_316"

====
